---- MODULE Spec2Model ----
(***************************************************************************)
(* A model of the GitHub helper agent: the five GitHub query functions     *)
(* (src/app.py, duplicated in src/cli.py and src/github_agent.py), the     *)
(* POST /api/chat handler (src/app.py) and the CLI chat loop (src/cli.py). *)
(*                                                                         *)
(* Text is modelled as a sequence of non-empty pieces, so the empty string *)
(* is << >> and concatenation is \o .  A URL is a sequence of tokens: the  *)
(* literal "github.com", the characters "/" and ":", the suffix ".git", a  *)
(* newline "\n", and "a" for any other character.                          *)
(***************************************************************************)
EXTENDS Integers, Sequences, FiniteSets, TLC

VARIABLES
    pc,         \* position of the query function call: idle/awaiting/returned/raised
    fn,         \* the query function being called
    github_url, \* its github_url argument
    arg,        \* its second argument (file_path or state), << >> when it has none
    requests,   \* the GET requests the call has issued, in order
    responses,  \* the responses the call has received, in order
    parsed,     \* TRUE once the call has read response.json()
    result,     \* the string the call returned
    exc,        \* the exception the call raised
    chat,       \* the state of each POST /api/chat handler
    clients,    \* the httpx.AsyncClient objects created so far: "open" or "closed"
    cli         \* the state of the CLI chat loop

toolVars == <<pc, fn, github_url, arg, requests, responses, parsed, result, exc>>

vars == <<pc, fn, github_url, arg, requests, responses, parsed, result, exc, chat, clients, cli>>

(***************************************************************************)
(* Bounds of the model.                                                    *)
(***************************************************************************)
MaxUrlLen == 5
MaxTree == 2
MaxEntries == 2
MaxHistory == 2
MaxToolCalls == 2
MaxInputs == 2
MaxClients == 3

(***************************************************************************)
(* Sequences helpers.                                                      *)
(***************************************************************************)
SeqsUpTo(S, n) == UNION {[1..k -> S] : k \in 0..n}

RECURSIVE Join(_, _)
\* sep.join(list): the items separated by sep
Join(sep, list) ==
    IF list = << >> THEN << >>
    ELSE IF Len(list) = 1 THEN Head(list)
    ELSE Head(list) \o sep \o Join(sep, Tail(list))

(***************************************************************************)
(* The URL pattern  github\.com[:/]([^/]+)/([^/]+?)(?:\.git)?$             *)
(***************************************************************************)

NoSlash(u, from, to) == \A k \in from..to : u[k] # "/"

\* "$" matches at the end of the string and before a newline that ends it
AtDollar(u, p) == p = Len(u) + 1 \/ (p = Len(u) /\ u[p] = "\n")

\* (?:\.git)?$ matches at position p
GitSuffixEnd(u, p) ==
    \/ (p <= Len(u) /\ u[p] = ".git" /\ AtDollar(u, p + 1))
    \/ AtDollar(u, p)

\* the pattern matches with "github.com" at i, the owner ending before the
\* slash at j and the repository name ending at e
MatchAt(u, i, j, e) ==
    /\ u[i] = "github.com"
    /\ i + 1 <= Len(u) /\ u[i + 1] \in {":", "/"}
    /\ j > i + 2 /\ j <= Len(u) /\ u[j] = "/" /\ NoSlash(u, i + 2, j - 1)
    /\ e > j /\ e <= Len(u) /\ NoSlash(u, j + 1, e)
    /\ GitSuffixEnd(u, e + 1)

MatchStarts(u) ==
    {i \in 1..Len(u) : \E j \in 1..Len(u), e \in 1..Len(u) : MatchAt(u, i, j, e)}

\* re.search(...) is not None
UrlMatches(u) == MatchStarts(u) # {}

Min(S) == CHOOSE x \in S : \A y \in S : x <= y

\* match.groups(): the leftmost match, the owner up to the next slash, the
\* repository name as short as the rest of the pattern allows (lazy)
UrlGroups(u) ==
    LET i == Min(MatchStarts(u))
        j == Min({k \in 1..Len(u) : \E e \in 1..Len(u) : MatchAt(u, i, k, e)})
        e == Min({k \in 1..Len(u) : MatchAt(u, i, j, k)})
    IN  [owner |-> SubSeq(u, i + 2, j - 1), repo |-> SubSeq(u, j + 1, e)]

(***************************************************************************)
(* JSON values, as response.json() returns them.  A value is a record with *)
(* a type tag t; "invalid" is a body that is not JSON at all.              *)
(***************************************************************************)
JNull == [t |-> "null"]
JStr(s) == [t |-> "str", v |-> s]
JInt(n) == [t |-> "int", v |-> n]
JDict(d) == [t |-> "dict", v |-> d]
JList(l) == [t |-> "list", v |-> l]
JInvalid == [t |-> "invalid"]

Has(d, k) == k \in DOMAIN d.v

Without(d, k) == JDict([x \in (DOMAIN d.v) \ {k} |-> d.v[x]])

\* bool(value), for the values the functions test
Truthy(x) ==
    CASE x.t = "null" -> FALSE
      [] x.t = "int" -> x.v # 0
      [] x.t \in {"str", "list"} -> x.v # << >>
      [] x.t = "dict" -> DOMAIN x.v # {}
      [] OTHER -> TRUE

\* the text an f-string puts for a value
Fmt(x) ==
    CASE x.t = "null" -> <<"None">>
      [] x.t = "int" -> <<ToString(x.v)>>
      [] x.t = "str" -> x.v
      [] OTHER -> <<"<json>">>

(***************************************************************************)
(* The outcome of one step of a query function: it returns a string, it    *)
(* raises, or it issues a further GET request and awaits the response.     *)
(* parsed records whether the step read response.json().                   *)
(***************************************************************************)
NoRequest == [endpoint |-> "", owner |-> << >>, repo |-> << >>, extra |-> << >>, headers |-> << >>]
Ret(s, p) == [k |-> "return", v |-> s, e |-> "", parsed |-> p, req |-> NoRequest]
Raise(e, p) == [k |-> "raise", v |-> << >>, e |-> e, parsed |-> p, req |-> NoRequest]

\* GitHubDeps.github_token: None, the empty string or a token
NoToken == "<None>"
GithubTokens == {NoToken, "", "ghp"}

\* {'Authorization': f'token {ctx.deps.github_token}'} if ctx.deps.github_token else {}
Headers(token) ==
    IF token # NoToken /\ token # "" THEN <<"Authorization", "token ", token>> ELSE << >>

\* client.get(f'https://api.github.com/repos/{owner}/{repo}...', headers=headers)
Request(endpoint, groups, extra, headers) ==
    [endpoint |-> endpoint, owner |-> groups.owner, repo |-> groups.repo,
     extra |-> extra, headers |-> headers]

\* the first key of keys (in order) that data lacks, 0 if it has them all
FirstMissing(data, keys) ==
    IF \A i \in 1..Len(keys) : Has(data, keys[i]) THEN 0
    ELSE Min({i \in 1..Len(keys) : ~Has(data, keys[i])})

(***************************************************************************)
(* get_repo_info, after its response arrived (src/app.py 80-118)           *)
(***************************************************************************)
\* f"{size_mb:.1f}" for size_mb = size / 1024: one decimal, ties to even
FormatSizeMb(size) ==
    LET tenths == (size * 10) \div 1024
        rem == (size * 10) % 1024
        up == rem > 512 \/ (rem = 512 /\ tenths % 2 = 1)
        t == IF up THEN tenths + 1 ELSE tenths
    IN  <<ToString(t \div 10), ".", ToString(t % 10)>>

RepoInfoKeys1 == <<"forks_count", "open_issues_count", "default_branch", "visibility">>
RepoInfoKeys2 ==
    <<"full_name", "description", "stargazers_count", "language", "created_at", "updated_at">>

RepoInfoText(groups, data) ==
    LET d == data.v
        topics == IF Has(data, "topics")
                  THEN Join(<<", ">>, [i \in 1..Len(d.topics.v) |-> d.topics.v[i].v])
                  ELSE <<"No topics">>
        lic == IF Has(data, "license") THEN d.license ELSE JNull
        license_info == IF Truthy(lic) /\ Has(lic, "name") THEN Fmt(lic.v.name)
                        ELSE <<"No license available">>
    IN  <<"Repository: ">> \o Fmt(d.full_name) \o <<"\nOwner: ">> \o Fmt(d.owner.v.login)
        \o <<"\nDescription: ">> \o Fmt(d.description)
        \o <<"\nSize: ">> \o FormatSizeMb(d.size.v) \o <<"MB">>
        \o <<"\nStars: ">> \o Fmt(d.stargazers_count)
        \o <<"\nForks: ">> \o Fmt(d.forks_count)
        \o <<"\nOpen Issues: ">> \o Fmt(d.open_issues_count)
        \o <<"\nPull Requests: ", "https://github.com/">> \o groups.owner \o <<"/">>
        \o groups.repo \o <<"/pulls">>
        \o <<"\nLanguage: ">> \o Fmt(d.language)
        \o <<"\nCreated: ">> \o Fmt(d.created_at)
        \o <<"\nLast Updated: ">> \o Fmt(d.updated_at)
        \o <<"\nDefault Branch: ">> \o Fmt(d.default_branch)
        \o <<"\nVisibility: ">> \o Fmt(d.visibility)
        \o <<"\nTopics: ">> \o topics
        \o <<"\nLicense: ">> \o license_info

get_repo_info(groups, resp) ==
    IF resp.status_code # 200
    THEN Ret(<<"Failed to get repository info: ">> \o resp.text, FALSE)
    ELSE LET data == resp.json IN
         IF data.t = "invalid" THEN Raise("JSONDecodeError", TRUE)
         ELSE IF data.t # "dict" THEN Raise("TypeError", TRUE)
         ELSE IF ~Has(data, "size") THEN Raise("KeyError", TRUE)
         ELSE IF data.v.size.t # "int" THEN Raise("TypeError", TRUE)
         ELSE IF ~Has(data, "owner") THEN Raise("KeyError", TRUE)
         ELSE IF data.v.owner.t # "dict" THEN Raise("TypeError", TRUE)
         ELSE IF ~Has(data.v.owner, "login") THEN Raise("KeyError", TRUE)
         ELSE IF FirstMissing(data, RepoInfoKeys1) # 0 THEN Raise("KeyError", TRUE)
         ELSE IF Has(data, "topics") /\ data.v.topics.t # "list" THEN Raise("TypeError", TRUE)
         ELSE IF Has(data, "license") /\ Truthy(data.v.license) /\ data.v.license.t # "dict"
              THEN Raise("AttributeError", TRUE)
         ELSE IF FirstMissing(data, RepoInfoKeys2) # 0 THEN Raise("KeyError", TRUE)
         ELSE Ret(RepoInfoText(groups, data), TRUE)

(***************************************************************************)
(* get_repo_structure (src/app.py 129-152)                                 *)
(***************************************************************************)
Excluded == {".git/", "node_modules/", "__pycache__/"}

\* any(excluded in item['path'] for excluded in [...]): a path is a sequence
\* of pieces, and an excluded directory occurs in it as one of its pieces
IsExcluded(path) == \E i \in 1..Len(path) : path[i] \in Excluded

RECURSIVE TreeLines(_)
\* the loop over data['tree']: the lines built, or the exception an item raises
TreeLines(tree) ==
    IF tree = << >> THEN [err |-> "", lines |-> << >>]
    ELSE LET item == Head(tree) IN
         IF item.t # "dict" THEN [err |-> "TypeError", lines |-> << >>]
         ELSE IF ~Has(item, "path") THEN [err |-> "KeyError", lines |-> << >>]
         ELSE IF item.v.path.t # "str" THEN [err |-> "TypeError", lines |-> << >>]
         ELSE IF IsExcluded(item.v.path.v) THEN TreeLines(Tail(tree))
         ELSE IF ~Has(item, "type") THEN [err |-> "KeyError", lines |-> << >>]
         ELSE LET rest == TreeLines(Tail(tree))
                  icon == IF item.v.type = JStr(<<"tree">>) THEN "DIR " ELSE "FILE "
              IN  IF rest.err # "" THEN rest
                  ELSE [err |-> "", lines |-> <<(<<icon>> \o item.v.path.v)>> \o rest.lines]

\* lines 143-152: the listing built from a 200 response
StructureListing(resp) ==
    LET data == resp.json IN
    IF data.t = "invalid" THEN Raise("JSONDecodeError", TRUE)
    ELSE IF data.t # "dict" THEN Raise("TypeError", TRUE)
    ELSE IF ~Has(data, "tree") THEN Raise("KeyError", TRUE)
    ELSE IF data.v.tree.t # "list" THEN Raise("TypeError", TRUE)
    ELSE LET r == TreeLines(data.v.tree.v) IN
         IF r.err # "" THEN Raise(r.err, TRUE)
         ELSE Ret(Join(<<"\n">>, r.lines), TRUE)

\* the GET requests of get_repo_structure
TreeRequest(groups, branch, headers) ==
    Request("/git/trees/", groups, <<branch, "?recursive=1">>, headers)

\* a slip: no fallback to the master tree
get_repo_structure_main_NoFallback(groups, headers, resp) ==
    IF resp.status_code # 200
    THEN Ret(<<"Failed to get repository structure: ">> \o resp.text, FALSE)
    ELSE StructureListing(resp)

\* after the response to the request for the main tree
get_repo_structure_main(groups, headers, resp) ==
    IF resp.status_code # 200
    THEN [k |-> "get", v |-> << >>, e |-> "", parsed |-> FALSE,
          req |-> TreeRequest(groups, "master", headers)]
    ELSE StructureListing(resp)

\* a slip: the status of the master response is not checked
get_repo_structure_master_NoCheck(resp) == StructureListing(resp)

\* after the response to the request for the master tree
get_repo_structure_master(resp) ==
    IF resp.status_code # 200
    THEN Ret(<<"Failed to get repository structure: ">> \o resp.text, FALSE)
    ELSE StructureListing(resp)

(***************************************************************************)
(* get_file_content (src/app.py 168-177)                                   *)
(***************************************************************************)
\* base64 text is a sequence of 4-character groups, newlines (which the
\* decoder discards) and "a", a lone character that breaks the padding
B64Bytes(group) ==
    CASE group = "aGVs" -> <<"hel">>
      [] group = "bG8=" -> <<"lo">>
      [] group = "/w==" -> <<"\\xff">>
      [] OTHER -> << >>

RECURSIVE B64Decode(_)
B64Decode(content) ==
    IF content = << >> THEN << >> ELSE B64Bytes(Head(content)) \o B64Decode(Tail(content))

B64PaddingOk(content) == \A i \in 1..Len(content) : content[i] # "a"

Utf8Ok(bytes) == \A i \in 1..Len(bytes) : bytes[i] # "\\xff"

get_file_content(file_path, resp) ==
    IF resp.status_code # 200
    THEN Ret(<<"Failed to get file content: ">> \o resp.text, FALSE)
    ELSE LET data == resp.json IN
         IF data.t = "invalid" THEN Raise("JSONDecodeError", TRUE)
         ELSE IF data.t # "dict" THEN Raise("AttributeError", TRUE)
         ELSE IF ~Has(data, "type") \/ data.v.type # JStr(<<"file">>)
              THEN Ret(<<"The path does not point to a file">>, TRUE)
         ELSE IF ~Has(data, "content") THEN Raise("KeyError", TRUE)
         ELSE IF data.v.content.t # "str" THEN Raise("TypeError", TRUE)
         ELSE IF ~B64PaddingOk(data.v.content.v) THEN Raise("binascii.Error", TRUE)
         ELSE IF ~Utf8Ok(B64Decode(data.v.content.v)) THEN Raise("UnicodeDecodeError", TRUE)
         ELSE Ret(<<"File: ">> \o file_path \o <<"\n\n">> \o B64Decode(data.v.content.v), TRUE)

(***************************************************************************)
(* get_issues (src/app.py 193-213), get_pull_requests (src/app.py 229-245) *)
(***************************************************************************)
EntryKeys == <<"number", "title", "state", "created_at", "html_url">>

EntryText(entry) ==
    <<"#">> \o Fmt(entry.v.number) \o <<" - ">> \o Fmt(entry.v.title)
    \o <<"\nState: ">> \o Fmt(entry.v.state)
    \o <<"\nCreated: ">> \o Fmt(entry.v.created_at)
    \o <<"\nURL: ">> \o Fmt(entry.v.html_url) \o <<"\n">>

RECURSIVE EntryLines(_, _)
\* the loop over the entries; skipPRs is get_issues' "if 'pull_request' in issue"
EntryLines(entries, skipPRs) ==
    IF entries = << >> THEN [err |-> "", lines |-> << >>]
    ELSE LET entry == Head(entries) IN
         IF entry.t # "dict" THEN [err |-> "TypeError", lines |-> << >>]
         ELSE IF skipPRs /\ Has(entry, "pull_request") THEN EntryLines(Tail(entries), skipPRs)
         ELSE IF FirstMissing(entry, EntryKeys) # 0 THEN [err |-> "KeyError", lines |-> << >>]
         ELSE LET rest == EntryLines(Tail(entries), skipPRs) IN
              IF rest.err # "" THEN rest
              ELSE [err |-> "", lines |-> <<EntryText(entry)>> \o rest.lines]

\* what "for x in response.json()" iterates over: a dict yields its keys
Iterated(data) ==
    IF data.t = "list" THEN data.v
    ELSE [i \in 1..Cardinality(DOMAIN data.v) |-> JStr(<<"key">>)]

\* a slip: pull requests are not skipped
get_issues_KeepPRs(state, resp) ==
    IF resp.status_code # 200
    THEN Ret(<<"Failed to get issues: ">> \o resp.text, FALSE)
    ELSE LET issues == resp.json IN
         IF issues.t = "invalid" THEN Raise("JSONDecodeError", TRUE)
         ELSE IF ~Truthy(issues) THEN Ret(<<"No ">> \o state \o <<" issues found.">>, TRUE)
         ELSE IF issues.t \notin {"list", "dict"} THEN Raise("TypeError", TRUE)
         ELSE LET r == EntryLines(Iterated(issues), FALSE) IN
              IF r.err # "" THEN Raise(r.err, TRUE)
              ELSE IF r.lines # << >> THEN Ret(Join(<<"\n">>, r.lines), TRUE)
              ELSE Ret(<<"No ">> \o state \o <<" issues found (excluding PRs).">>, TRUE)

get_issues(state, resp) ==
    IF resp.status_code # 200
    THEN Ret(<<"Failed to get issues: ">> \o resp.text, FALSE)
    ELSE LET issues == resp.json IN
         IF issues.t = "invalid" THEN Raise("JSONDecodeError", TRUE)
         ELSE IF ~Truthy(issues) THEN Ret(<<"No ">> \o state \o <<" issues found.">>, TRUE)
         ELSE IF issues.t \notin {"list", "dict"} THEN Raise("TypeError", TRUE)
         ELSE LET r == EntryLines(Iterated(issues), TRUE) IN
              IF r.err # "" THEN Raise(r.err, TRUE)
              ELSE IF r.lines # << >> THEN Ret(Join(<<"\n">>, r.lines), TRUE)
              ELSE Ret(<<"No ">> \o state \o <<" issues found (excluding PRs).">>, TRUE)

get_pull_requests(state, resp) ==
    IF resp.status_code # 200
    THEN Ret(<<"Failed to get pull requests: ">> \o resp.text, FALSE)
    ELSE LET prs == resp.json IN
         IF prs.t = "invalid" THEN Raise("JSONDecodeError", TRUE)
         ELSE IF ~Truthy(prs) THEN Ret(<<"No ">> \o state \o <<" pull requests found.">>, TRUE)
         ELSE IF prs.t \notin {"list", "dict"} THEN Raise("TypeError", TRUE)
         ELSE LET r == EntryLines(Iterated(prs), FALSE) IN
              IF r.err # "" THEN Raise(r.err, TRUE)
              ELSE Ret(Join(<<"\n">>, r.lines), TRUE)

(***************************************************************************)
(* The inputs of the query functions: the arguments the model supplies and *)
(* the responses the GitHub API may give.                                  *)
(***************************************************************************)
QueryFunctions ==
    {"get_repo_info", "get_repo_structure", "get_file_content", "get_issues",
     "get_pull_requests"}

UrlAlphabet == {"github.com", "/", "a"}

SampleUrls ==
    { <<"a", ":", "/", "/", "github.com", "/", "a", "/", "a">>,
      <<"a", ":", "/", "/", "github.com", "/", "a", "/", "a", ".git">>,
      <<"a", ":", "/", "/", "github.com", "/", "a", "/", "a", ".git", "\n">>,
      <<"a", ":", "/", "/", "github.com", "/", "a", "/", "a", "\n">>,
      <<"a", ":", "/", "/", "github.com", "/", "a", "/", "a", "/">>,
      <<"a", ":", "/", "/", "github.com", "/", "a", "/", "a", "/", "a", "/", "a">>,
      <<"a", "github.com", ":", "a", "/", "a", ".git">>,
      <<"github.com", ":", "a", "/", ".git">>,
      <<"github.com", "/", "a", "/", ".git", ".git">>,
      <<"github.com", "/", "a", "/", "\n">>,
      <<"github.com", "a", "/", "a", "/", "a">>,
      <<"a", ":", "/", "/", "a", "/", "a", "/", "a">> }

Urls == SeqsUpTo(UrlAlphabet, MaxUrlLen) \cup SampleUrls

FilePaths == {<<"README.md">>, <<"src">>}
IssueStates == {<<"open">>, <<"closed">>, <<"all">>}

\* the second argument of each function
ArgsOf(f) ==
    CASE f = "get_file_content" -> FilePaths
      [] f \in {"get_issues", "get_pull_requests"} -> IssueStates
      [] OTHER -> {<< >>}

Message(text) == JDict([message |-> JStr(text)])

ErrorResponses ==
    {[status_code |-> s, text |-> t, json |-> IF t = << >> THEN JInvalid ELSE Message(t)] :
        s \in {404, 301}, t \in {<< >>, <<"Not Found">>}}

Ok(body) == [status_code |-> 200, text |-> <<"<body>">>, json |-> body]

S(x) == JStr(<<x>>)

FullRepo ==
    JDict([size |-> JInt(768), owner |-> JDict([login |-> S("octo")]),
           forks_count |-> JInt(1), open_issues_count |-> JInt(2),
           default_branch |-> S("main"), visibility |-> S("public"),
           topics |-> JList(<<S("ai"), S("bot")>>),
           license |-> JDict([name |-> S("MIT")]),
           full_name |-> S("octo/repo"), description |-> JNull,
           stargazers_count |-> JInt(3), language |-> S("Python"),
           created_at |-> S("2024"), updated_at |-> S("2025")])

With(d, k, x) == JDict([y \in (DOMAIN d.v) \cup {k} |-> IF y = k THEN x ELSE d.v[y]])

RepoBodies ==
    {FullRepo, JInvalid, JNull, JList(<< >>), JDict([message |-> S("moved")])}
    \cup {Without(FullRepo, k) : k \in {"size", "owner", "visibility", "topics", "license", "language"}}
    \cup {With(FullRepo, "size", x) : x \in {JInt(0), JInt(256), JInt(2048), JNull}}
    \cup {With(FullRepo, "license", x) : x \in {JNull, S("MIT"), JDict([key |-> S("mit")])}}
    \cup {With(FullRepo, "topics", x) : x \in {JList(<< >>), JNull}}
    \cup {With(FullRepo, "owner", x) : x \in {JNull, JDict([id |-> JInt(1)])}}

TreeItems ==
    { JDict([path |-> JStr(<<"src">>), type |-> S("tree")]),
      JDict([path |-> JStr(<<"src/", "app.py">>), type |-> S("blob")]),
      JDict([path |-> JStr(<<"node_modules/", "x.js">>), type |-> S("blob")]),
      JDict([path |-> JStr(<<"node_modules/", "y.js">>)]),
      JDict([path |-> JStr(<<"README.md">>)]),
      JDict([type |-> S("blob")]) }

TreeBodies ==
    {JDict([tree |-> JList(t)]) : t \in SeqsUpTo(TreeItems, MaxTree)}
    \cup {JInvalid, JNull, JDict([message |-> S("moved")]), JDict([tree |-> JNull])}

FileBodies ==
    {JDict([type |-> S("file"), content |-> JStr(c)]) :
        c \in {<< >>, <<"aGVs">>, <<"aGVs", "\n", "bG8=">>, <<"/w==">>, <<"aGVs", "a">>}}
    \cup {JDict([type |-> S("file")]), JDict([type |-> S("file"), content |-> JNull]),
          JDict([type |-> S("symlink"), target |-> S("x")]), JDict([message |-> S("moved")]),
          JList(<<JDict([type |-> S("file"), name |-> S("app.py")])>>), JInvalid}

Issue(n) ==
    JDict([number |-> JInt(n), title |-> S("bug"), state |-> S("open"),
           created_at |-> S("2024"), html_url |-> S("https://github.com/o/r/issues")])

Entries ==
    {Issue(1), With(Issue(2), "pull_request", JDict([url |-> S("u")])), Without(Issue(3), "title")}

EntryBodies ==
    {JList(l) : l \in SeqsUpTo(Entries, MaxEntries)}
    \cup {JInvalid, JNull, JDict([message |-> S("moved")])}

Bodies(f) ==
    CASE f = "get_repo_info" -> RepoBodies
      [] f = "get_repo_structure" -> TreeBodies
      [] f = "get_file_content" -> FileBodies
      [] OTHER -> EntryBodies

Responses(f) == ErrorResponses \cup {Ok(b) : b \in Bodies(f)}

(***************************************************************************)
(* The query functions as steps: the call up to its first await, and the   *)
(* continuation when a response arrives.                                   *)
(***************************************************************************)
\* the result for a URL the pattern does not match
InvalidUrl(f) ==
    IF f = "get_repo_info" THEN <<"Invalid GitHub URL format", ".">>
    ELSE <<"Invalid GitHub URL format">>

\* a slip: get_repo_structure asks for the master tree first
FirstRequest_MasterFirst(f, groups, a, headers) ==
    CASE f = "get_repo_info" -> Request("", groups, << >>, headers)
      [] f = "get_repo_structure" -> TreeRequest(groups, "master", headers)
      [] f = "get_file_content" -> Request("/contents/", groups, a, headers)
      [] f = "get_issues" -> Request("/issues", groups, <<"?state=">> \o a \o <<"&per_page=10">>, headers)
      [] OTHER -> Request("/pulls", groups, <<"?state=">> \o a \o <<"&per_page=10">>, headers)

\* the first GET request of each function
FirstRequest(f, groups, a, headers) ==
    CASE f = "get_repo_info" -> Request("", groups, << >>, headers)
      [] f = "get_repo_structure" -> TreeRequest(groups, "main", headers)
      [] f = "get_file_content" -> Request("/contents/", groups, a, headers)
      [] f = "get_issues" -> Request("/issues", groups, <<"?state=">> \o a \o <<"&per_page=10">>, headers)
      [] OTHER -> Request("/pulls", groups, <<"?state=">> \o a \o <<"&per_page=10">>, headers)

\* the function's code after the response to its n-th request
Continue(f, n, reqs, a, resp) ==
    LET groups == [owner |-> reqs[1].owner, repo |-> reqs[1].repo] IN
    CASE f = "get_repo_info" -> get_repo_info(groups, resp)
      [] f = "get_repo_structure" /\ n = 1 -> get_repo_structure_main(groups, reqs[1].headers, resp)
      [] f = "get_repo_structure" /\ n # 1 -> get_repo_structure_master(resp)
      [] f = "get_file_content" -> get_file_content(a, resp)
      [] f = "get_issues" -> get_issues(a, resp)
      [] OTHER -> get_pull_requests(a, resp)

ToolIdle ==
    /\ pc = "idle" /\ fn = "" /\ github_url = << >> /\ arg = << >> /\ requests = << >>
    /\ responses = << >> /\ parsed = FALSE /\ result = << >> /\ exc = ""

\* a slip: get_pull_requests goes on to match.groups() without "if not match"
Invoke_NoMatchCheck(f, url, a, token) ==
    /\ pc = "idle"
    /\ fn' = f /\ github_url' = url /\ arg' = a
    /\ IF ~UrlMatches(url)
       THEN IF f = "get_pull_requests"
            THEN pc' = "raised" /\ exc' = "AttributeError" /\ UNCHANGED <<requests, result>>
            ELSE pc' = "returned" /\ result' = InvalidUrl(f) /\ UNCHANGED <<requests, exc>>
       ELSE /\ pc' = "awaiting" /\ UNCHANGED <<result, exc>>
            /\ requests' = <<FirstRequest(f, UrlGroups(url), a, Headers(token))>>
    /\ UNCHANGED <<responses, parsed, chat, clients, cli>>

\* the agent calls tool f: the code up to the first "await ctx.deps.client.get"
Invoke(f, url, a, token) ==
    /\ pc = "idle"
    /\ fn' = f /\ github_url' = url /\ arg' = a
    /\ IF ~UrlMatches(url)
       THEN /\ pc' = "returned" /\ result' = InvalidUrl(f)
            /\ UNCHANGED requests
       ELSE /\ pc' = "awaiting" /\ UNCHANGED result
            /\ requests' = <<FirstRequest(f, UrlGroups(url), a, Headers(token))>>
    /\ UNCHANGED <<responses, parsed, exc, chat, clients, cli>>

\* the awaited response arrives and the function runs on
Respond(resp) ==
    /\ pc = "awaiting"
    /\ LET out == Continue(fn, Len(requests), requests, arg, resp) IN
       /\ responses' = Append(responses, resp)
       /\ parsed' = out.parsed
       /\ pc' = CASE out.k = "get" -> "awaiting" [] out.k = "return" -> "returned" [] OTHER -> "raised"
       /\ requests' = IF out.k = "get" THEN Append(requests, out.req) ELSE requests
       /\ result' = out.v
       /\ exc' = out.e
    /\ UNCHANGED <<fn, github_url, arg, chat, clients, cli>>

\* the request fails in transport: client.get raises
RequestFails ==
    /\ pc = "awaiting"
    /\ pc' = "raised" /\ exc' = "httpx.RequestError"
    /\ UNCHANGED <<fn, github_url, arg, requests, responses, parsed, result, chat, clients, cli>>

\* the agent framework takes the call's outcome
ToolDone ==
    /\ pc \in {"returned", "raised"}
    /\ pc' = "idle" /\ fn' = "" /\ github_url' = << >> /\ arg' = << >> /\ requests' = << >>
    /\ responses' = << >> /\ parsed' = FALSE /\ result' = << >> /\ exc' = ""
    /\ UNCHANGED <<chat, clients, cli>>

(***************************************************************************)
(* Agents and their message types.  A message is a ModelRequest or a       *)
(* ModelResponse with a list of parts; a part is a record holding the      *)
(* attributes of its class, so that hasattr(part, name) is name \in DOMAIN. *)
(***************************************************************************)
ModelRequest(parts) == [kind |-> "request", parts |-> parts]
ModelResponse(parts) == [kind |-> "response", parts |-> parts]
SystemPromptPart(content) == [part_kind |-> "system-prompt", content |-> content]
UserPromptPart(content) == [part_kind |-> "user-prompt", content |-> content]
TextPart(content) == [part_kind |-> "text", content |-> content]
ToolCallPart(name, args) == [part_kind |-> "tool-call", tool_name |-> name, args |-> args]
ToolReturnPart(name, content) ==
    [part_kind |-> "tool-return", tool_name |-> name, content |-> content]

HasAttr(obj, name) == name \in DOMAIN obj

NoAgent == [model |-> "", api_key |-> "", system_prompt |-> "", retries |-> 0, tools |-> {}]

\* Agent(model, system_prompt=..., deps_type=GitHubDeps, retries=2)
Agent(api_key, prompt) ==
    [model |-> "llama-3.3-70b-versatile", api_key |-> api_key, system_prompt |-> prompt,
     retries |-> 2, tools |-> {}]

\* agent.tool(f), @github_agent.tool
Tool(agent, f) == [agent EXCEPT !.tools = @ \cup {f}]

\* src/app.py: get_github_agent(api_key)
get_github_agent(api_key) ==
    Tool(Tool(Tool(Tool(Tool(Agent(api_key, "app.py"),
        "get_repo_info"), "get_repo_structure"), "get_file_content"), "get_issues"),
        "get_pull_requests")

\* src/cli.py: the module-level github_agent and the tools decorated onto it
cli_github_agent ==
    Tool(Tool(Agent("GROQ_API_KEY", "cli.py"), "get_repo_info"), "get_repo_structure")

\* the messages a run starts with: the system prompt goes with the first
\* request of a conversation
RunStart(agent, prompt, history) ==
    <<ModelRequest((IF history = << >> THEN <<SystemPromptPart(agent.system_prompt)>> ELSE << >>)
                   \o <<UserPromptPart(prompt)>>)>>

\* the model calls a tool and the tool's result goes back to it
WithToolCall(msgs, f, args, output) ==
    msgs \o <<ModelResponse(<<ToolCallPart(f, args)>>), ModelRequest(<<ToolReturnPart(f, output)>>)>>

\* the model says something and calls a tool in the same response
WithTextAndToolCall(msgs, text, f, args, output) ==
    msgs \o <<ModelResponse(<<TextPart(text), ToolCallPart(f, args)>>),
              ModelRequest(<<ToolReturnPart(f, output)>>)>>

\* the model gives its final answer
WithAnswer(msgs, text) == Append(msgs, ModelResponse(<<TextPart(text)>>))

\* the tool calls of a run's messages, in the order they were made
RECURSIVE Flatten(_)
Flatten(msgs) == IF msgs = << >> THEN << >> ELSE Head(msgs).parts \o Flatten(Tail(msgs))

IsToolCall(part) == part.part_kind = "tool-call"

ToolCallsOf(msgs) == SelectSeq(Flatten(msgs), IsToolCall)

(***************************************************************************)
(* POST /api/chat (src/app.py 18-26, 273-322)                              *)
(***************************************************************************)
\* ChatRequest: message and groq_token are required strings, github_token is
\* an optional string, history an optional list of string dicts
ValidString(body, k) == Has(body, k) /\ body.v[k].t = "str"

ValidOptional(body, k, t) == ~Has(body, k) \/ body.v[k].t \in {t, "null"}

ValidChatRequest(body) ==
    /\ ValidString(body, "message") /\ ValidString(body, "groq_token")
    /\ ValidOptional(body, "github_token", "str")
    /\ ValidOptional(body, "history", "list")

\* the ChatRequest object of a valid body, defaults filled in
ChatRequest(body) ==
    [message |-> body.v.message.v,
     groq_token |-> body.v.groq_token.v,
     github_token |-> IF Has(body, "github_token") /\ body.v.github_token.t = "str"
                      THEN body.v.github_token.v[1] ELSE NoToken,
     history |-> IF Has(body, "history") THEN body.v.history ELSE JList(<< >>)]

\* a slip: each converted message is inserted at the front of the list
RECURSIVE ConvertHistory_Prepend(_)
ConvertHistory_Prepend(history) ==
    IF history = << >> THEN [err |-> "", msgs |-> << >>]
    ELSE LET msg == Head(history) IN
         IF ~Has(msg, "role") THEN [err |-> "KeyError", msgs |-> << >>]
         ELSE IF msg.v.role \in {S("user"), S("assistant")} /\ ~Has(msg, "content")
         THEN [err |-> "KeyError", msgs |-> << >>]
         ELSE LET rest == ConvertHistory_Prepend(Tail(history)) IN
              IF rest.err # "" THEN rest
              ELSE IF msg.v.role = S("user")
              THEN [err |-> "", msgs |-> Append(rest.msgs, ModelRequest(<<UserPromptPart(msg.v.content.v)>>))]
              ELSE IF msg.v.role = S("assistant")
              THEN [err |-> "", msgs |-> Append(rest.msgs, ModelResponse(<<TextPart(msg.v.content.v)>>))]
              ELSE rest

RECURSIVE ConvertHistory(_)
\* lines 282-287: the loop over request.history, or the exception an entry raises
ConvertHistory(history) ==
    IF history = << >> THEN [err |-> "", msgs |-> << >>]
    ELSE LET msg == Head(history) IN
         IF ~Has(msg, "role") THEN [err |-> "KeyError", msgs |-> << >>]
         ELSE IF msg.v.role \in {S("user"), S("assistant")} /\ ~Has(msg, "content")
         THEN [err |-> "KeyError", msgs |-> << >>]
         ELSE LET rest == ConvertHistory(Tail(history)) IN
              IF rest.err # "" THEN rest
              ELSE IF msg.v.role = S("user")
              THEN [err |-> "", msgs |-> <<ModelRequest(<<UserPromptPart(msg.v.content.v)>>)>> \o rest.msgs]
              ELSE IF msg.v.role = S("assistant")
              THEN [err |-> "", msgs |-> <<ModelResponse(<<TextPart(msg.v.content.v)>>)>> \o rest.msgs]
              ELSE rest

\* "for msg in request.history" with the history the request carries
MessageHistory(history) ==
    IF history.t # "list" THEN [err |-> "TypeError", msgs |-> << >>]
    ELSE ConvertHistory(history.v)

RECURSIVE ExtractParts(_)
\* lines 304-312: a record for every part that has a tool_call attribute
ExtractParts(parts) ==
    IF parts = << >> THEN << >>
    ELSE LET part == Head(parts) IN
         (IF HasAttr(part, "tool_call")
          THEN <<[name |-> part.tool_call.function.name, args |-> part.tool_call.function.arguments]>>
          ELSE << >>) \o ExtractParts(Tail(parts))

ExtractToolCalls(new_messages) == ExtractParts(Flatten(new_messages))

NoBody == [response |-> << >>, tool_calls |-> << >>, detail |-> << >>]

\* await deps.client.aclose(): an open client becomes closed; a further call
\* on the same client is recorded as such
AClose(cs, c) == [cs EXCEPT ![c] = IF @ = "open" THEN "closed" ELSE "closed again"]

IdleHandler ==
    [pc |-> "idle", body |-> JNull, agent |-> NoAgent, message_history |-> << >>,
     client |-> 0, github_token |-> NoToken, new_messages |-> << >>, status |-> 0,
     response |-> NoBody, escaped |-> ""]

\* the arguments the model passes to each tool
ToolArgs(f) ==
    CASE f = "get_file_content" -> <<"github_url", "file_path">>
      [] f \in {"get_issues", "get_pull_requests"} -> <<"github_url", "state">>
      [] OTHER -> <<"github_url">>

\* POST /api/chat arrives with a JSON body: request validation, then the
\* handler up to "await github_agent.run" (lines 275-301)
Post(h, body) ==
    /\ chat[h].pc = "idle"
    /\ LET request == ChatRequest(body)
           github_agent == get_github_agent(request.groq_token)
           conv == MessageHistory(request.history)
       IN
       IF ~ValidChatRequest(body)
       THEN /\ chat' = [chat EXCEPT ![h] = [@ EXCEPT !.pc = "done", !.body = body,
                           !.status = 422,
                           !.response = [NoBody EXCEPT !.detail = <<"validation error">>]]]
            /\ UNCHANGED clients
       ELSE IF request.groq_token = << >>
       THEN /\ chat' = [chat EXCEPT ![h] = [@ EXCEPT !.pc = "done", !.body = body,
                           !.status = 400,
                           !.response = [NoBody EXCEPT !.detail = <<"Groq API token is required">>]]]
            /\ UNCHANGED clients
       ELSE IF conv.err # ""
       THEN /\ chat' = [chat EXCEPT ![h] = [@ EXCEPT !.pc = "done", !.body = body,
                           !.agent = github_agent, !.escaped = conv.err, !.status = 500,
                           !.response = [NoBody EXCEPT !.detail = <<"Internal Server Error">>]]]
            /\ UNCHANGED clients
       ELSE /\ clients' = Append(clients, "open")
            /\ chat' = [chat EXCEPT ![h] = [@ EXCEPT !.pc = "running", !.body = body,
                           !.agent = github_agent, !.message_history = conv.msgs,
                           !.client = Len(clients) + 1,
                           !.github_token = request.github_token,
                           !.new_messages = RunStart(github_agent, request.message, conv.msgs)]]
    /\ UNCHANGED <<toolVars, cli>>

\* during the run the model calls one of the agent's tools
RunCallsTool(h, f, output) ==
    /\ chat[h].pc = "running"
    /\ f \in chat[h].agent.tools
    /\ Len(ToolCallsOf(chat[h].new_messages)) < MaxToolCalls
    /\ chat' = [chat EXCEPT ![h].new_messages = WithToolCall(@, f, ToolArgs(f), output)]
    /\ UNCHANGED <<toolVars, cli, clients>>

\* the run returns the model's answer: lines 303-317, then the finally clause
RunReturns(h, text) ==
    /\ chat[h].pc = "running"
    /\ LET new_messages == WithAnswer(chat[h].new_messages, text) IN
       chat' = [chat EXCEPT ![h] = [@ EXCEPT !.pc = "done", !.new_messages = new_messages,
                   !.status = 200,
                   !.response = [NoBody EXCEPT !.response = text,
                                    !.tool_calls = ExtractToolCalls(new_messages)]]]
    /\ clients' = AClose(clients, chat[h].client)
    /\ UNCHANGED <<toolVars, cli>>

\* a slip: the client is closed after a successful run only, not in a finally clause
RunRaises_NoClose(h, e) ==
    /\ chat[h].pc = "running"
    /\ chat' = [chat EXCEPT ![h] = [@ EXCEPT !.pc = "done", !.status = 500,
                   !.response = [NoBody EXCEPT !.detail = <<e>>]]]
    /\ UNCHANGED <<toolVars, cli, clients>>

\* the run raises (a tool raised, the model provider failed): lines 318-322
RunRaises(h, e) ==
    /\ chat[h].pc = "running"
    /\ chat' = [chat EXCEPT ![h] = [@ EXCEPT !.pc = "done", !.status = 500,
                   !.response = [NoBody EXCEPT !.detail = <<e>>]]]
    /\ clients' = AClose(clients, chat[h].client)
    /\ UNCHANGED <<toolVars, cli>>

\* the response of a finished request has been sent: its handler is free to
\* take the next request, its locals are gone
Sent(h) ==
    /\ chat[h].pc = "done"
    /\ chat' = [chat EXCEPT ![h] = IdleHandler]
    /\ UNCHANGED <<toolVars, cli, clients>>

(***************************************************************************)
(* The inputs of the chat endpoint.                                        *)
(***************************************************************************)
Handlers == {"A"}

HistoryEntries ==
    { JDict([role |-> S("user"), content |-> S("q1")]),
      JDict([role |-> S("assistant"), content |-> S("a1")]),
      JDict([role |-> S("system"), content |-> S("s1")]),
      JDict([role |-> S("user")]),
      JDict([content |-> S("q2")]) }

Histories == {JList(l) : l \in SeqsUpTo(HistoryEntries, MaxHistory)} \cup {JNull}

BaseBody == JDict([message |-> S("What is this repo about?")])

Optionally(bodies, k, values) == bodies \cup {With(b, k, x) : b \in bodies, x \in values}

ChatBodies ==
    Optionally(
        Optionally(
            Optionally({BaseBody}, "groq_token", {JNull, JStr(<< >>), S("gsk")}),
            "github_token", {S("ghp")}),
        "history", Histories)

Answers == {<<"It is a chat bot.">>}
ToolOutputs == {<<"Repository: a/a ...">>}
RunErrors == {"KeyError", "UnexpectedModelBehavior"}

(***************************************************************************)
(* The CLI chat loop (src/cli.py 224-267).  A line is a sequence of        *)
(* characters.                                                             *)
(***************************************************************************)
Whitespace == {" ", "\t", "\n"}

RECURSIVE LStrip(_)
LStrip(line) ==
    IF line # << >> /\ Head(line) \in Whitespace THEN LStrip(Tail(line)) ELSE line

RECURSIVE RStrip(_)
RStrip(line) ==
    IF line # << >> /\ line[Len(line)] \in Whitespace
    THEN RStrip(SubSeq(line, 1, Len(line) - 1)) ELSE line

\* str.strip()
Strip(line) == RStrip(LStrip(line))

LowerChar(c) ==
    CASE c = "Q" -> "q" [] c = "U" -> "u" [] c = "I" -> "i" [] c = "T" -> "t"
      [] c = "H" -> "h" [] OTHER -> c

\* str.lower()
Lower(line) == [i \in 1..Len(line) |-> LowerChar(line[i])]

\* a slip: the line is compared without .strip()
UserInput_NoStrip(line) == line

\* user_input = input("> ").strip()
UserInput(line) == Strip(line)

\* user_input.lower() == 'quit'
IsQuitInput(user_input) == Lower(user_input) = <<"q", "u", "i", "t">>

IsKept(msg) ==
    ~(HasAttr(msg, "parts")
      /\ \E i \in 1..Len(msg.parts) : msg.parts[i].part_kind \in {"user-prompt", "text"})

\* a slip: every message of the run is kept
FilteredMessages_KeepAll(new_messages) == new_messages

\* lines 255-257: the run's messages without those that hold a user prompt or text
FilteredMessages(new_messages) == SelectSeq(new_messages, IsKept)

CliOff ==
    [pc |-> "off", stdin |-> << >>, messages |-> << >>, client |-> 0,
     user_input |-> << >>, new_messages |-> << >>, exit |-> "", turns |-> 0]

\* CLI(): lines 225-230, with the lines that standard input will supply
CliStart(stdin) == [CliOff EXCEPT !.pc = "input", !.stdin = stdin, !.client = 1]

\* one pass of "while True" up to "await github_agent.run" (lines 238-247), or
\* out of the loop through the finally clause
CliInput ==
    /\ cli.pc = "input"
    /\ IF cli.stdin = << >>
       THEN /\ cli' = [cli EXCEPT !.pc = "done", !.exit = "EOFError"]
            /\ clients' = AClose(clients, cli.client)
       ELSE LET user_input == UserInput(Head(cli.stdin)) IN
            IF IsQuitInput(user_input)
            THEN /\ cli' = [cli EXCEPT !.pc = "done", !.exit = "quit", !.stdin = Tail(@),
                               !.user_input = user_input]
                 /\ clients' = AClose(clients, cli.client)
            ELSE /\ cli' = [cli EXCEPT !.pc = "running", !.stdin = Tail(@),
                               !.user_input = user_input,
                               !.new_messages = RunStart(cli_github_agent, user_input, cli.messages)]
                 /\ UNCHANGED clients
    /\ UNCHANGED <<toolVars, chat>>

\* during the run the model calls one of the agent's tools
CliRunCallsTool(f, output) ==
    /\ cli.pc = "running"
    /\ f \in cli_github_agent.tools
    /\ Len(ToolCallsOf(cli.new_messages)) < MaxToolCalls
    /\ cli' = [cli EXCEPT !.new_messages = WithToolCall(@, f, ToolArgs(f), output)]
    /\ UNCHANGED <<toolVars, chat, clients>>

\* during the run the model calls a tool in a response that also holds text
CliRunSaysAndCallsTool(text, f, output) ==
    /\ cli.pc = "running"
    /\ f \in cli_github_agent.tools
    /\ Len(ToolCallsOf(cli.new_messages)) < MaxToolCalls
    /\ cli' = [cli EXCEPT !.new_messages = WithTextAndToolCall(@, text, f, ToolArgs(f), output)]
    /\ UNCHANGED <<toolVars, chat, clients>>

\* the run returns: lines 249-265, and back to the top of the loop
CliRunReturns(text) ==
    /\ cli.pc = "running"
    /\ LET new_messages == WithAnswer(cli.new_messages, text) IN
       cli' = [cli EXCEPT !.pc = "input", !.new_messages = << >>, !.turns = @ + 1,
                  !.messages = @ \o <<ModelRequest(<<UserPromptPart(cli.user_input)>>)>>
                                 \o FilteredMessages(new_messages)
                                 \o <<ModelResponse(<<TextPart(text)>>)>>]
    /\ UNCHANGED <<toolVars, chat, clients>>

\* the run raises: the exception leaves the loop through the finally clause
CliRunRaises(e) ==
    /\ cli.pc = "running"
    /\ cli' = [cli EXCEPT !.pc = "done", !.exit = e, !.new_messages = << >>]
    /\ clients' = AClose(clients, cli.client)
    /\ UNCHANGED <<toolVars, chat>>

Lines ==
    { <<"q", "u", "i", "t">>, <<" ", "Q", "u", "I", "T", "\t">>,
      <<"q", "u", "i", "t", " ", "x">>, <<"h", "i">> }

Stdins == SeqsUpTo(Lines, MaxInputs)

(***************************************************************************)
(* The specifications: the query functions (Spec), one chat request        *)
(* (SpecChat) and the CLI loop (SpecCli, and SpecCliFair with the loop and *)
(* the agent run making progress).                                         *)
(***************************************************************************)
Init ==
    /\ ToolIdle
    /\ chat = [h \in Handlers |-> IdleHandler] /\ clients = << >> /\ cli = CliOff

Next ==
    \/ /\ pc = "idle"
       /\ \E f \in QueryFunctions, url \in Urls, token \in GithubTokens :
             \E a \in ArgsOf(f) : Invoke(f, url, a, token)
    \/ /\ pc = "awaiting"
       /\ \E resp \in Responses(fn) : Respond(resp)
    \/ RequestFails
    \/ ToolDone

Spec == Init /\ [][Next]_vars

NextChat ==
    \/ \E h \in Handlers : chat[h].pc = "idle" /\ \E body \in ChatBodies : Post(h, body)
    \/ \E h \in Handlers, f \in QueryFunctions, output \in ToolOutputs : RunCallsTool(h, f, output)
    \/ \E h \in Handlers, text \in Answers : RunReturns(h, text)
    \/ \E h \in Handlers, e \in RunErrors : RunRaises(h, e)

SpecChat == Init /\ [][NextChat]_vars

\* concurrent requests: the handlers of two requests in flight at once, each
\* taking further requests when its response is sent
ConcurrentHandlers == {"A", "B"}

ConcurrentBodies ==
    { With(With(With(BaseBody, "groq_token", S("gsk")), "github_token", S("ghp")),
           "history", JList(<<JDict([role |-> S("user"), content |-> S("q1")])>>)),
      With(JDict([message |-> S("Any open issues?")]), "groq_token", S("gsk2")),
      With(With(BaseBody, "groq_token", S("gsk")), "history", JList(<<JDict([content |-> S("q2")])>>)),
      With(BaseBody, "groq_token", JStr(<< >>)),
      JDict([message |-> S("Hi")]) }

ConcurrentTools == {"get_issues"}

InitConcurrent ==
    /\ ToolIdle
    /\ chat = [h \in ConcurrentHandlers |-> IdleHandler] /\ clients = << >> /\ cli = CliOff

NextConcurrent ==
    \/ \E h \in ConcurrentHandlers :
          /\ chat[h].pc = "idle" /\ Len(clients) < MaxClients
          /\ \E body \in ConcurrentBodies : Post(h, body)
    \/ \E h \in ConcurrentHandlers, f \in ConcurrentTools, output \in ToolOutputs :
          RunCallsTool(h, f, output)
    \/ \E h \in ConcurrentHandlers, text \in Answers : RunReturns(h, text)
    \/ \E h \in ConcurrentHandlers, e \in RunErrors : RunRaises(h, e)
    \/ \E h \in ConcurrentHandlers : Sent(h)

SpecConcurrent == InitConcurrent /\ [][NextConcurrent]_vars

InitCli ==
    /\ ToolIdle
    /\ chat = [h \in Handlers |-> IdleHandler] /\ clients = <<"open">>
    /\ \E stdin \in Stdins : cli = CliStart(stdin)

NextCli ==
    \/ CliInput
    \/ \E f \in QueryFunctions, output \in ToolOutputs : CliRunCallsTool(f, output)
    \/ \E text \in Answers : CliRunReturns(text)
    \/ \E e \in RunErrors : CliRunRaises(e)

SpecCli == InitCli /\ [][NextCli]_vars

SpecCliFair == InitCli /\ [][NextCli]_vars /\ WF_vars(NextCli)

\* the CLI loop with runs whose model responses may hold text beside a tool call
Sayings == {<<"Let me look.">>}

NextCliHistory ==
    \/ CliInput
    \/ \E output \in ToolOutputs : CliRunCallsTool("get_repo_structure", output)
    \/ \E text \in Sayings, output \in ToolOutputs :
          CliRunSaysAndCallsTool(text, "get_repo_info", output)
    \/ \E text \in Answers : CliRunReturns(text)
    \/ \E e \in RunErrors : CliRunRaises(e)

SpecCliHistory == InitCli /\ [][NextCliHistory]_vars

(***************************************************************************)
(* Properties of the query functions.                                      *)
(***************************************************************************)
Last(q) == q[Len(q)]

Finished == pc \in {"returned", "raised"}

\* C1: every query function called with a URL that the owner/repository
\* pattern does not match returns the 'Invalid GitHub URL format' string as its
\* result: it raises nothing and issues no request.
C1_InvalidUrlReturned ==
    (fn # "" /\ ~UrlMatches(github_url)) =>
        /\ pc = "returned" /\ exc = "" /\ requests = << >>
        /\ result # << >> /\ Head(result) = "Invalid GitHub URL format"

C1_Witness ==
    /\ fn = "get_pull_requests" /\ pc = "returned"
    /\ github_url = <<"a", ":", "/", "/", "github.com", "/", "a", "/", "a", "/">>

\* C2: a query function never raises, whatever response its GitHub request
\* gets (any status code, any body of a 200 response): once a response has
\* arrived the call cannot end in an exception.
C2_NeverRaises == responses # << >> => pc # "raised"

\* the error string each function returns for a status other than 200
FailedToGet(f) ==
    CASE f = "get_repo_info" -> "Failed to get repository info: "
      [] f = "get_repo_structure" -> "Failed to get repository structure: "
      [] f = "get_file_content" -> "Failed to get file content: "
      [] f = "get_issues" -> "Failed to get issues: "
      [] OTHER -> "Failed to get pull requests: "

\* the number of non-200 responses after which a function gives up
Attempts(f) == IF f = "get_repo_structure" THEN 2 ELSE 1

\* C3: when every request of the call (one, or for get_repo_structure both the
\* main and the master request) was answered with a status other than 200, the
\* function returns 'Failed to get ...' followed by the text of the last
\* response, and has not read the response body as JSON.
C3_Non200ReturnsFailure ==
    (/\ Len(responses) = Attempts(fn)
     /\ \A i \in 1..Len(responses) : responses[i].status_code # 200) =>
        /\ pc = "returned" /\ exc = "" /\ ~parsed
        /\ result = <<FailedToGet(fn)>> \o Last(responses).text

C3_Witness ==
    /\ fn = "get_repo_structure" /\ pc = "returned" /\ Len(responses) = 2
    /\ responses[1].status_code = 404 /\ responses[2].status_code = 301
    /\ responses[2].text = <<"Not Found">>

\* C8 as stated: a call with a well-formed URL has issued exactly one GET
\* request when it ends, whatever the response status.
C8_ExactlyOneRequest == (Finished /\ UrlMatches(github_url)) => Len(requests) = 1

\* C8, amended: a call with a well-formed URL issues one GET request, and
\* get_repo_structure alone issues a second one (for the master tree) when, and
\* only when, the first (for the main tree) was answered with a status other
\* than 200.
C8_OneRequestOrFallback ==
    (fn # "" /\ UrlMatches(github_url)) =>
        /\ Len(requests) =
              IF fn = "get_repo_structure" /\ responses # << >>
                 /\ responses[1].status_code # 200
              THEN 2 ELSE 1
        /\ requests[1] = FirstRequest(fn, UrlGroups(github_url), arg, requests[1].headers)
        /\ Len(requests) = 2 => requests[2] = [requests[1] EXCEPT !.extra[1] = "master"]

C8_Witness ==
    /\ fn = "get_repo_structure" /\ Finished /\ Len(requests) = 2
    /\ responses[1].status_code = 404 /\ Last(responses).status_code = 200


\* JSON of the form the GitHub API documents for the endpoint of function f
WellFormedItem(item) == item.t = "dict" /\ Has(item, "path") /\ Has(item, "type")

WellFormedEntry(entry) ==
    entry.t = "dict" /\ \A i \in 1..Len(EntryKeys) : Has(entry, EntryKeys[i])

Representative(f, body) ==
    IF f = "get_repo_info"
    THEN /\ body.t = "dict" /\ DOMAIN FullRepo.v \subseteq DOMAIN body.v
         /\ body.v.size.t = "int"
         /\ body.v.owner.t = "dict" /\ Has(body.v.owner, "login")
         /\ body.v.topics.t = "list"
         /\ body.v.license.t \in {"null", "dict"}
    ELSE IF f = "get_repo_structure"
    THEN /\ body.t = "dict" /\ Has(body, "tree") /\ body.v.tree.t = "list"
         /\ body.v.tree.v # << >>
         /\ \A i \in 1..Len(body.v.tree.v) : WellFormedItem(body.v.tree.v[i])
    ELSE IF f = "get_file_content"
    THEN /\ body.t = "dict" /\ Has(body, "type") /\ body.v.type = JStr(<<"file">>)
         /\ Has(body, "content") /\ body.v.content.t = "str"
         /\ B64PaddingOk(body.v.content.v) /\ Utf8Ok(B64Decode(body.v.content.v))
    ELSE /\ body.t = "list"
         /\ \A i \in 1..Len(body.v) : WellFormedEntry(body.v[i])

\* the call of a query function ended on a 200 response with representative JSON
AnsweredOk ==
    /\ Finished /\ responses # << >>
    /\ Last(responses).status_code = 200
    /\ Representative(fn, Last(responses).json)
    /\ UrlMatches(github_url)

\* C12: every query function, called with a well-formed URL and given a 200
\* response with representative JSON, returns a non-empty string
C12_NonEmptyResult == AnsweredOk => (pc = "returned" /\ result # << >>)

\* the call returned the failure string of get_repo_structure
StructureFailed ==
    pc = "returned" /\ result # << >> /\ Head(result) = "Failed to get repository structure: "

\* the call ended with what lines 143-152 make of response resp
BuiltFrom(resp) ==
    /\ Finished
    /\ pc = "returned" => result = StructureListing(resp).v
    /\ pc = "raised" => exc = StructureListing(resp).e

\* C14: get_repo_structure requests the main tree first and the master tree
\* only after the main request was answered with a status other than 200; it
\* returns the failure string only when both requests were answered with a
\* status other than 200; when the main request is answered with 200 no
\* master request is issued and the listing is built from the main response
C14_MainThenMaster ==
    (fn = "get_repo_structure" /\ requests # << >>) =>
        /\ requests[1].extra = <<"main", "?recursive=1">>
        /\ \A i \in 2..Len(requests) :
              /\ i = 2 /\ requests[i].extra = <<"master", "?recursive=1">>
              /\ responses # << >> /\ responses[1].status_code # 200
        /\ StructureFailed =>
              /\ Len(responses) = 2
              /\ responses[1].status_code # 200 /\ responses[2].status_code # 200
        /\ (responses # << >> /\ responses[1].status_code = 200) =>
              /\ Len(requests) = 1 /\ Len(responses) = 1
              /\ BuiltFrom(responses[1])

C14_Witness ==
    /\ fn = "get_repo_structure" /\ pc = "returned" /\ ~StructureFailed
    /\ Len(requests) = 2 /\ Len(responses) = 2
    /\ responses[1].status_code = 301 /\ responses[2].status_code = 200
    /\ result = <<"DIR ", "src", "\n", "FILE ", "src/", "app.py">>

IsPullRequest(entry) == "pull_request" \in DOMAIN entry.v

NotPullRequest(entry) == ~IsPullRequest(entry)

TokenAbsentOrEmpty(body) ==
    ~Has(body, "groq_token") \/ body.v.groq_token \in {JNull, JStr(<< >>)}

\* C4: a POST /api/chat whose groq_token is absent or empty is answered with
\* HTTP 400, and for it no agent is built, no HTTP client is created and no
\* agent run is started.
C4_NoTokenIs400 ==
    \A h \in Handlers :
        (chat[h].pc = "done" /\ TokenAbsentOrEmpty(chat[h].body)) =>
            /\ chat[h].status = 400
            /\ chat[h].agent = NoAgent /\ chat[h].client = 0 /\ chat[h].new_messages = << >>

\* C6: no failure raised while handling a request whose model token is
\* present escapes the chat handler: every one is caught by it and answered
\* with HTTP 500.
C6_FailuresCaught ==
    \A h \in Handlers :
        (chat[h].pc = "done" /\ ~TokenAbsentOrEmpty(chat[h].body)) =>
            /\ chat[h].escaped = ""
            /\ chat[h].status \in {200, 500}

\* the positions of the history entries that are user or assistant entries
IsTurn(entry) == Has(entry, "role") /\ entry.v.role \in {S("user"), S("assistant")}

\* the number of user and assistant entries among the first n
TurnsUpTo(hist, n) == Cardinality({i \in 1..n : IsTurn(hist[i])})

\* C7: the message history passed to the agent holds the request's user and
\* assistant entries in their order: the k-th such entry is the k-th message,
\* a user-prompt request or a text response with the entry's content; a
\* history of user and assistant entries only keeps its length.
C7_HistoryOrderPreserved ==
    \A h \in Handlers :
        chat[h].client # 0 =>
            LET hist == ChatRequest(chat[h].body).history.v
                passed == chat[h].message_history
            IN  /\ Len(passed) = TurnsUpTo(hist, Len(hist))
                /\ \A i \in 1..Len(hist) :
                      IsTurn(hist[i]) =>
                          passed[TurnsUpTo(hist, i)] =
                              IF hist[i].v.role = S("user")
                              THEN [kind |-> "request",
                                    parts |-> <<[part_kind |-> "user-prompt",
                                                 content |-> hist[i].v.content.v]>>]
                              ELSE [kind |-> "response",
                                    parts |-> <<[part_kind |-> "text",
                                                 content |-> hist[i].v.content.v]>>]
                /\ (\A i \in 1..Len(hist) : IsTurn(hist[i])) => Len(passed) = Len(hist)

C7_Witness ==
    /\ chat["A"].pc = "running"
    /\ Len(chat["A"].message_history) = 2
    /\ chat["A"].message_history[1].kind = "response"
    /\ chat["A"].message_history[2].kind = "request"

\* C9: the response of a successful chat request lists one record (tool name
\* and arguments) for every tool call the agent made during the run, in the
\* order the calls were made.
C9_ToolCallsReported ==
    \A h \in Handlers :
        chat[h].status = 200 =>
            LET calls == ToolCallsOf(chat[h].new_messages) IN
            chat[h].response.tool_calls =
                [i \in 1..Len(calls) |-> [name |-> calls[i].tool_name, args |-> calls[i].args]]

\* C10: the agent the chat endpoint runs and the agent the CLI loop runs have
\* the same registered tools and the same retry count.
C10_SameAgentLogic ==
    \A h \in Handlers :
        chat[h].agent # NoAgent =>
            /\ chat[h].agent.tools = cli_github_agent.tools
            /\ chat[h].agent.retries = cli_github_agent.retries

\* a line that is 'quit' once surrounding whitespace is dropped and case ignored
QuitLine(line) ==
    \E i \in 1..Len(line) :
        /\ i + 3 <= Len(line)
        /\ \A k \in 1..Len(line) : (k < i \/ k > i + 3) => line[k] \in Whitespace
        /\ line[i] \in {"q", "Q"} /\ line[i + 1] \in {"u", "U"}
        /\ line[i + 2] \in {"i", "I"} /\ line[i + 3] \in {"t", "T"}

\* the loop reads the quit sentinel: it ends without running the agent, leaves
\* the history as it was and closes the HTTP client
QuitEndsLoop ==
    (cli.pc = "input" /\ cli.stdin # << >> /\ QuitLine(Head(cli.stdin))) =>
        /\ cli'.pc = "done" /\ cli'.exit = "quit"
        /\ cli'.messages = cli.messages /\ cli'.new_messages = << >>
        /\ clients'[cli.client] = "closed"

\* C5: the CLI loop terminates on the quit sentinel: reading it ends the loop
\* with no agent run, the history unchanged and the client closed; and when the
\* input holds the sentinel the loop eventually ends, by the sentinel or by an
\* agent run that raised, never by running out of input.
C5_QuitTerminates ==
    /\ [][QuitEndsLoop]_vars
    /\ (cli.pc = "input" /\ \E i \in 1..Len(cli.stdin) : QuitLine(cli.stdin[i]))
          ~> (cli.pc = "done" /\ cli.exit \in {"quit"} \cup RunErrors)

C5_Witness ==
    /\ cli.pc = "done" /\ cli.exit = "quit" /\ cli.turns = 1
    /\ cli.user_input = <<"Q", "u", "I", "T">>
    /\ clients[cli.client] = "closed"


(***************************************************************************)
(* Properties of concurrent chat requests.                                 *)
(***************************************************************************)
\* the request of handler h has passed the token check
PassedTokenCheck(h) == chat[h].agent # NoAgent

\* the handlers that hold client c
HoldersOf(c) == {h \in DOMAIN chat : chat[h].client = c}

\* C11: under any interleaving of concurrent chat requests, a request that
\* has passed the token check has its own agent (built from its own model
\* token), its own history and prompt, and, once it has created its HTTP
\* client, a client that no other request holds; the client is open while the
\* agent runs and has been closed exactly once when the request ends, whether
\* the run returned or raised; no client stays open without a running request.
\* (A request whose history cannot be converted ends before it creates a
\* client.)
C11_OwnClientClosedOnce ==
    /\ \A h \in DOMAIN chat :
          PassedTokenCheck(h) =>
              LET request == ChatRequest(chat[h].body) IN
              /\ chat[h].agent.api_key = request.groq_token
              /\ chat[h].client = 0 => (chat[h].pc = "done" /\ chat[h].escaped # "")
              /\ chat[h].client # 0 =>
                    /\ chat[h].client \in 1..Len(clients)
                    /\ HoldersOf(chat[h].client) = {h}
                    /\ chat[h].pc = "running" => clients[chat[h].client] = "open"
                    /\ chat[h].pc = "done" => clients[chat[h].client] = "closed"
                    /\ chat[h].github_token = request.github_token
                    /\ Len(chat[h].message_history) = TurnsUpTo(request.history.v, Len(request.history.v))
                    /\ Last(Head(chat[h].new_messages).parts) =
                          [part_kind |-> "user-prompt", content |-> request.message]
    /\ \A c \in 1..Len(clients) :
          /\ clients[c] # "closed again"
          /\ clients[c] = "open" => \E h \in DOMAIN chat : chat[h].client = c /\ chat[h].pc = "running"

C11_Witness ==
    /\ chat["A"].status = 500 /\ chat["A"].client = 2 /\ chat["A"].escaped = ""
    /\ chat["B"].status = 200 /\ chat["B"].client = 3
    /\ chat["A"].body # chat["B"].body
    /\ chat["A"].github_token # chat["B"].github_token
    /\ clients = <<"closed", "closed", "closed">>


(***************************************************************************)
(* Properties of the history of the CLI.                                   *)
(***************************************************************************)
HoldsPromptOrText(msg) ==
    \E i \in 1..Len(msg.parts) : msg.parts[i].part_kind \in {"user-prompt", "text"}

\* the messages of msgs, in order, that hold no user prompt and no text
RECURSIVE Intermediate(_)
Intermediate(msgs) ==
    IF msgs = << >> THEN << >>
    ELSE IF HoldsPromptOrText(Head(msgs)) THEN Intermediate(Tail(msgs))
    ELSE <<Head(msgs)>> \o Intermediate(Tail(msgs))

IsPrefix(p, q) == Len(p) <= Len(q) /\ SubSeq(q, 1, Len(p)) = p

TurnReturns ==
    (cli.pc = "running" /\ cli'.pc = "input") =>
        \E text \in Answers :
            cli'.messages = cli.messages
                \o <<[kind |-> "request",
                      parts |-> <<[part_kind |-> "user-prompt", content |-> cli.user_input]>>]>>
                \o Intermediate(cli.new_messages)
                \o <<[kind |-> "response",
                      parts |-> <<[part_kind |-> "text", content |-> text]>>]>>

TurnRaises ==
    (cli.pc = "running" /\ cli'.pc = "done") =>
        /\ cli'.messages = cli.messages
        /\ cli'.exit \in RunErrors
        /\ clients'[cli.client] = "closed"

\* C13: the history of the CLI only grows and keeps its order; a turn whose
\* run returns appends the user's message, then the run's messages that hold
\* no user prompt and no text, then the final answer; a turn whose run raises
\* adds nothing and ends the loop with the HTTP client closed
C13_HistoryGrowsInOrder ==
    [][IsPrefix(cli.messages, cli'.messages) /\ TurnReturns /\ TurnRaises]_vars

C13_Witness ==
    /\ cli.pc = "done" /\ cli.exit \in RunErrors /\ cli.turns = 1
    /\ Len(cli.messages) = 5
    /\ cli.messages[2].parts = <<ToolReturnPart("get_repo_info", <<"Repository: a/a ...">>)>>
    /\ cli.messages[3].parts[1].part_kind = "tool-call"
    /\ clients[cli.client] = "closed"

====
